---- MODULE Spec2Model ----
(***************************************************************************)
(* HomeManager of data_collection/home_manager.py: a Z-Wave network is     *)
(* polled every TIME_INTERVAL seconds by a self-rescheduling Timer and the *)
(* whitelisted readings of the sensor nodes are written to InfluxDB.       *)
(*                                                                         *)
(* The openzwave network, the pydispatch dispatcher, the InfluxDB client   *)
(* and the process signal are the environment.  What the source does not   *)
(* determine about them is a nondeterministic choice: whether a write to   *)
(* the sink raises, whether network.stop() empties network.nodes, which    *)
(* network a ready notification names, whether the network drops a value   *)
(* of a node, and when the callbacks run.                                  *)
(***************************************************************************)
EXTENDS Integers, Sequences, FiniteSets, TLC

VARIABLES
    topo,          \* the devices of the physical mesh (fixed for a run)
    netState,      \* ZWaveNetwork lifecycle: "new", "started", "stopped"
    started,       \* start() has been called
    connected,     \* connect_signals() has run
    nodes,         \* self.network.nodes, the live dict node_id -> node
    now,           \* wall clock, in seconds
    timers,        \* pending threading.Timer objects: their due times
    cycles,        \* start_polling invocations in flight, one per thread
    written,       \* points the InfluxDB client has accepted
    finished,      \* the start_polling invocation that ended last, if any
    configWrites,  \* values assigned to nodes[3].values[CONFIG_NUMBER].data
    teardowns,     \* calls of self.network.stop()
    raised,        \* exceptions that left a handler
    sinkFailures,  \* write_points calls that raised
    calls,         \* how often stop() and the ready callback were invoked, and
                   \* whether a SIGINT has been delivered
    removals       \* values the network has dropped from a node

vars == <<topo, netState, started, connected, nodes, now, timers, cycles, written,
          finished, configWrites, teardowns, raised, sinkFailures, calls, removals>>

\* ------------------------------------------------------------ constants

TIME_INTERVAL == 15

\* The value id is 72057594098484979 in the source; it is only ever used as
\* a dictionary key, so it is kept as its decimal text.
CONFIG_NUMBER == "72057594098484979"

\* The node whose configuration value carries the poll rate.
CONFIG_NODE == 3

POLL_RATE_START == 15

POLL_RATE_STOP == 3600

\* ------------------------------------------------------------ bounds

MaxTime == 15      \* timers due later than this never fire

MaxReady == 2      \* ready notifications delivered

MaxInFlight == 1   \* start_polling invocations running at the same time

MaxSinkFailures == 1   \* sink writes that raise

MaxStops == 1      \* stop() invocations (direct or from SIGINT)

MaxRemovals == 1   \* values the network drops from a node

\* ------------------------------------------------------------ devices

OWN == "own"

FOREIGN == "foreign"

Networks == {OWN, FOREIGN}

HOME_ID == "0xd5b88a6e"

\* val.data as openzwave hands it over: a Decimal value is a float (kept in
\* tenths), a Byte value an int, a Bool value a bool (True is 1, False 0).
Dec(tenths) == [kind |-> "float", v |-> tenths]

Byte(n) == [kind |-> "int", v |-> n]

Bool(b) == [kind |-> "bool", v |-> IF b THEN 1 ELSE 0]

\* A value of a node.  sensor: the library lists it in node.get_sensors().
Val(id, label, data, units, sensor) ==
    [value_id |-> id, id_on_network |-> <<HOME_ID, id>>, label |-> label,
     data |-> data, units |-> units, sensor |-> sensor]

ConfigVal == Val(CONFIG_NUMBER, "Group 1 Interval", Byte(POLL_RATE_STOP), "seconds", FALSE)

Node(id, manufacturer, product, isSensorNode, values) ==
    [home_id |-> HOME_ID, node_id |-> id, manufacturer_id |-> manufacturer,
     product_id |-> product, sensorNode |-> isSensorNode, values |-> values]

\* Multisensor: the configuration value, a multilevel sensor reading and an
\* alarm reading.
Multisensor ==
    Node(3, "0x0086", "0x0059", TRUE,
         << ConfigVal,
            Val("v1", "Temperature", Dec(215), "C", TRUE),
            Val("v2", "Burglar", Byte(8), "", FALSE) >>)

\* Node 3 without the configuration value.
PlainSensor ==
    Node(3, "0x0086", "0x0064", TRUE,
         << Val("v1", "Luminance", Dec(300), "lux", TRUE) >>)

\* A node with whitelisted labels but nothing in get_sensors().
AlarmOnly ==
    Node(4, "0x014a", "0x0001", TRUE,
         << Val("v3", "Alarm Level", Byte(3), "", FALSE) >>)

\* A node with get_sensors() non-empty and no whitelisted label.
Meter ==
    Node(5, "0x0086", "0x0060", TRUE,
         << Val("v5", "Sensor", Bool(TRUE), "", TRUE) >>)

\* A node that is no ZWaveNodeSensor.
Controller ==
    Node(1, "0x0086", "0x005a", FALSE,
         << Val("v7", "Temperature", Dec(0), "C", FALSE) >>)

EmptyNodes == [n \in {} |-> Multisensor]

Topology(ns) == [n \in {x.node_id : x \in ns} |-> CHOOSE x \in ns : x.node_id = n]

Topologies ==
    { Topology({Multisensor, AlarmOnly, Meter}),
      Topology({Controller, PlainSensor}),
      Topology({AlarmOnly, Meter}) }

\* ------------------------------------------------------------ helpers

\* Iteration order of a dict keyed by node id (insertion order: the node ids
\* in increasing order).
RECURSIVE SortedSeq(_)
SortedSeq(S) ==
    IF S = {} THEN <<>>
    ELSE LET m == CHOOSE x \in S : \A y \in S : x <= y
         IN  <<m>> \o SortedSeq(S \ {m})

ValueIds(node) == [i \in 1..Len(node.values) |-> node.values[i].value_id]

HasValue(node, vid) == \E i \in 1..Len(node.values) : node.values[i].value_id = vid

GetValue(node, vid) ==
    node.values[CHOOSE i \in 1..Len(node.values) : node.values[i].value_id = vid]

SetData(node, vid, d) ==
    [node EXCEPT !.values =
        [i \in 1..Len(node.values) |->
            IF node.values[i].value_id = vid
            THEN [node.values[i] EXCEPT !.data = d]
            ELSE node.values[i]]]

RemoveAt(s, i) == SubSeq(s, 1, i - 1) \o SubSeq(s, i + 1, Len(s))

\* self.network.nodes[3].values[CONFIG_NUMBER] can be looked up.
HasConfig(ns) ==
    /\ CONFIG_NODE \in DOMAIN ns
    /\ HasValue(ns[CONFIG_NODE], CONFIG_NUMBER)

\* The poll-rate write with a fault: the rate is assigned to every value of
\* the node.
WriteConfig_every_value(ns, rate) ==
    [ns EXCEPT ![CONFIG_NODE].values =
        [i \in 1..Len(@) |-> [@[i] EXCEPT !.data = Byte(rate)]]]

\* self.network.nodes[3].values[CONFIG_NUMBER].data = rate
WriteConfig(ns, rate) ==
    [ns EXCEPT ![CONFIG_NODE] = SetData(ns[CONFIG_NODE], CONFIG_NUMBER, Byte(rate))]

\* ------------------------------------------------------------ pure code

\* float(val.data)
float(d) ==
    CASE d.kind = "float" -> d.v
      [] d.kind = "int"   -> d.v * 10
      [] d.kind = "bool"  -> IF d.v = 1 THEN 10 ELSE 0

\* value_refresh_to_influxdb_json with a fault: the manufacturer and product
\* tags are taken from each other's field.
value_refresh_swapped_tags(node, val, t) ==
    << [measurement |-> "value_refresh",
        tags |-> [id_on_network   |-> val.id_on_network,
                  home_id         |-> node.home_id,
                  node_id         |-> node.node_id,
                  value_id        |-> val.value_id,
                  manufacturer_id |-> node.product_id,
                  product_id      |-> node.manufacturer_id,
                  label           |-> val.label],
        time |-> t,
        fields |-> [data     |-> float(val.data),
                    units    |-> val.units,
                    type     |-> "none",
                    type_val |-> 0]] >>

value_refresh_to_influxdb_json(node, val, t) ==
    << [measurement |-> "value_refresh",
        tags |-> [id_on_network   |-> val.id_on_network,
                  home_id         |-> node.home_id,
                  node_id         |-> node.node_id,
                  value_id        |-> val.value_id,
                  manufacturer_id |-> node.manufacturer_id,
                  product_id      |-> node.product_id,
                  label           |-> val.label],
        time |-> t,
        fields |-> [data     |-> float(val.data),
                    units    |-> val.units,
                    type     |-> "none",
                    type_val |-> 0]] >>

\* node.get_sensors(): the values the library lists as sensors.
get_sensors(node) == {i \in 1..Len(node.values) : node.values[i].sensor}

\* is_sensor with a fault: any ZWaveNodeSensor counts, whatever get_sensors()
\* returns.
is_sensor_any_node(node) == node.sensorNode

is_sensor(node) == node.sensorNode /\ ~(Cardinality(get_sensors(node)) = 0)

\* labels_to_be_polled with a fault: one more label is polled.
labels_with_binary_sensor ==
    {"Luminance", "Relative Humidity", "Temperature", "Ultraviolet",
     "Alarm Level", "Burglar", "Sensor"}

labels_to_be_polled ==
    {"Luminance", "Relative Humidity", "Temperature", "Ultraviolet",
     "Alarm Level", "Burglar"}

\* The identity test with a fault: every network passes.
IsAnyNetwork(network) == TRUE

\* if self.network is not network: return
IsOwnNetwork(network) == network = OWN

\* ------------------------------------------------------------ state

NoCalls == [stop |-> 0, sigint |-> FALSE, ready |-> [n \in Networks |-> 0]]

Init ==
    /\ topo \in Topologies
    /\ netState = "new"
    /\ started = FALSE
    /\ connected = FALSE
    /\ nodes = EmptyNodes
    /\ now = 0
    /\ timers = <<>>
    /\ cycles = <<>>
    /\ written = {}
    /\ finished = {}
    /\ configWrites = <<>>
    /\ teardowns = 0
    /\ raised = {}
    /\ sinkFailures = 0
    /\ calls = NoCalls
    /\ removals = 0

\* An exception leaving handler h, with the time it was raised at and whether
\* a Timer was pending then.
Raise(h, e) == [in |-> h, error |-> e, time |-> now, polling |-> timers # <<>>]

\* ------------------------------------------------------------ start_polling

\* The (node id, value id) pairs of the dict ns.
ValuesOf(ns) ==
    UNION {{<<n, ns[n].values[k].value_id>> : k \in 1..Len(ns[n].values)} : n \in DOMAIN ns}

\* The loop state of one start_polling invocation: the node ids the outer
\* loop still has to yield, the node it is on, the value ids the inner loop
\* still has to yield (the first of them is the one the loop body is about to
\* use), and what the invocation has done so far.  snap is the network as it
\* was at entry, seen the value ids the inner loops have enumerated.  iter is
\* the state of the dict the inner loop iterates: "live" while it is the
\* values of a node of the network, "dirty" once a value has been dropped
\* from it during the iteration, "detached" once the node has left the
\* network, "none" between inner loops.
NewCycle(ns) ==
    [ids |-> DOMAIN ns, snap |-> ValuesOf(ns), queue |-> SortedSeq(DOMAIN ns),
     cur |-> 0, vals |-> <<>>, iter |-> "none", seen |-> {}, walked |-> {}, out |-> <<>>]

LoopsDone(c) == c.queue = <<>> /\ c.vals = <<>>

\* How an invocation ended: status is "returned" or the exception, at the
\* node and value it was on when it raised.
Outcome(c, status) ==
    [ids |-> c.ids, snap |-> c.snap, seen |-> c.seen, walked |-> c.walked,
     out |-> c.out, status |-> status,
     at |-> IF status = "returned" THEN <<>>
            ELSE IF c.vals = <<>> THEN <<c.cur>> ELSE <<c.cur, Head(c.vals)>>]

\* The invocation in thread slot i goes on as c, or returns when both loops
\* are exhausted.
Continue(i, c) ==
    IF LoopsDone(c)
    THEN /\ cycles' = RemoveAt(cycles, i)
         /\ finished' = {Outcome(c, "returned")}
    ELSE /\ cycles' = [cycles EXCEPT ![i] =
                          IF c.vals = <<>> THEN [c EXCEPT !.iter = "none"] ELSE c]
         /\ finished' = finished

\* The invocation in thread slot i ends with exception e.
Abort(i, c, e) ==
    /\ cycles' = RemoveAt(cycles, i)
    /\ finished' = {Outcome(c, e)}
    /\ raised' = raised \cup {Raise("start_polling", e)}

\* The inner loop asks its iterator for the next value id after the body has
\* run for Head(c.vals): a dict that changed size during the iteration makes
\* the iterator raise RuntimeError.
Advance(i, c) ==
    IF c.iter = "dirty"
    THEN Abort(i, c, "RuntimeError")
    ELSE Continue(i, [c EXCEPT !.vals = Tail(c.vals)]) /\ UNCHANGED raised

\* start_polling with a fault: the Timer for the next invocation is not armed.
start_polling_unarmed(ns, t, tm) ==
    /\ Len(cycles) < MaxInFlight
    /\ timers' = tm
    /\ IF ns = EmptyNodes
       THEN /\ cycles' = cycles
            /\ finished' = {Outcome(NewCycle(ns), "returned")}
       ELSE /\ cycles' = Append(cycles, NewCycle(ns))
            /\ finished' = finished

\* Entry of start_polling at time t with network.nodes = ns and the pending
\* timers tm: the next Timer is armed first, then the outer loop starts.
start_polling(ns, t, tm) ==
    /\ Len(cycles) < MaxInFlight
    /\ timers' = Append(tm, t + TIME_INTERVAL)
    /\ IF ns = EmptyNodes
       THEN /\ cycles' = cycles
            /\ finished' = {Outcome(NewCycle(ns), "returned")}
       ELSE /\ cycles' = Append(cycles, NewCycle(ns))
            /\ finished' = finished

\* The outer loop yields the next node: is_sensor decides whether the inner
\* loop runs over self.network.nodes[node_id].values, and the inner loop
\* yields its first value id.
NextNode(i) ==
    LET c == cycles[i]
        n == Head(c.queue)
        c1 == [c EXCEPT !.queue = Tail(c.queue), !.cur = n]
    IN  /\ c.vals = <<>>
        /\ c.queue # <<>>
        /\ UNCHANGED <<written, sinkFailures>>
        /\ IF ~is_sensor(topo[n])
           THEN Continue(i, c1) /\ UNCHANGED raised
           ELSE IF n \notin DOMAIN nodes
           THEN Abort(i, c1, "KeyError")
           ELSE /\ Continue(i, [c1 EXCEPT !.vals = ValueIds(nodes[n]),
                                          !.iter = "live",
                                          !.seen = c.seen \cup ValuesOf([m \in {n} |-> nodes[n]]),
                                          !.walked = c.walked \cup {n}])
                /\ UNCHANGED raised

\* The body of the inner loop for the value id it was given: the value is
\* looked up and, when its label is whitelisted, logged and written to the
\* sink; then the loop asks for the next value id.
NextValue(i) ==
    LET c == cycles[i]
        n == c.cur
        vid == Head(c.vals)
    IN  /\ c.vals # <<>>
        /\ IF ~(n \in DOMAIN nodes /\ HasValue(nodes[n], vid))
           THEN Abort(i, c, "KeyError") /\ UNCHANGED <<written, sinkFailures>>
           ELSE LET val == GetValue(nodes[n], vid)
                    points == value_refresh_to_influxdb_json(topo[n], val, now)
                IN  IF val.label \in labels_to_be_polled
                    THEN \/ /\ written' = written \cup {points[k] : k \in 1..Len(points)}
                            /\ Advance(i, [c EXCEPT !.out = c.out \o points])
                            /\ UNCHANGED sinkFailures
                         \/ /\ sinkFailures < MaxSinkFailures
                            /\ sinkFailures' = sinkFailures + 1
                            /\ Abort(i, c, "SinkError")
                            /\ UNCHANGED written
                    ELSE /\ Advance(i, c)
                         /\ UNCHANGED <<written, sinkFailures>>

\* network.stop() emptied network.nodes: the dicts the inner loops iterate
\* belong to nodes that have left the network.
Detached(cs) ==
    [i \in 1..Len(cs) |->
        IF cs[i].iter = "live" THEN [cs[i] EXCEPT !.iter = "detached"] ELSE cs[i]]

\* The values the network may drop from a node: those get_sensors() does not
\* list, so that is_sensor(node) stays what it was.
Removable(ns) ==
    {p \in ValuesOf(ns) : ~GetValue(ns[p[1]], p[2]).sensor}

\* The network drops value vid of node n (the device no longer reports it):
\* the entry leaves node.values, under the inner loops that iterate it.
ValueRemoved ==
    /\ removals < MaxRemovals
    /\ removals' = removals + 1
    /\ \E p \in Removable(nodes) :
          /\ nodes' = [nodes EXCEPT ![p[1]].values =
                          SelectSeq(@, LAMBDA v : v.value_id # p[2])]
          /\ cycles' = [i \in 1..Len(cycles) |->
                          IF cycles[i].cur = p[1] /\ cycles[i].iter = "live"
                          THEN [cycles[i] EXCEPT !.iter = "dirty"]
                          ELSE cycles[i]]
    /\ UNCHANGED <<topo, netState, started, connected, now, timers, written, finished,
                   configWrites, teardowns, raised, sinkFailures, calls>>

\* One step of a start_polling invocation that is in flight.
PollStep ==
    /\ \E i \in 1..Len(cycles) : NextNode(i) \/ NextValue(i)
    /\ UNCHANGED <<topo, netState, started, connected, nodes, now, timers, configWrites,
                   teardowns, calls, removals>>

\* A Timer armed by start_polling expires and runs start_polling in its own
\* thread.
TimerFire ==
    /\ timers # <<>>
    /\ Head(timers) <= MaxTime
    /\ now' = IF Head(timers) > now THEN Head(timers) ELSE now
    /\ start_polling(nodes, now', Tail(timers))
    /\ UNCHANGED <<topo, netState, started, connected, nodes, written, configWrites,
                   teardowns, raised, sinkFailures, calls, removals>>

\* ------------------------------------------------------------ lifecycle

\* start() with a fault: it starts the polling itself instead of waiting for
\* the ready notification.
start_and_poll ==
    /\ netState # "started"
    /\ netState' = "started"
    /\ started' = TRUE
    /\ start_polling(nodes, now, timers)
    /\ UNCHANGED <<topo, connected, nodes, now, written, configWrites, teardowns,
                   raised, sinkFailures, calls, removals>>

\* start() on a network that is not running; on a running network
\* network.start() changes nothing.
start ==
    /\ netState # "started"
    /\ netState' = "started"
    /\ started' = TRUE
    /\ UNCHANGED <<topo, connected, nodes, now, timers, cycles, written, finished,
                   configWrites, teardowns, raised, sinkFailures, calls, removals>>

\* The started network discovers the devices of the mesh.
Populate ==
    /\ netState = "started"
    /\ nodes = EmptyNodes
    /\ nodes' = topo
    /\ UNCHANGED <<topo, netState, started, connected, now, timers, cycles, written,
                   finished, configWrites, teardowns, raised, sinkFailures,
                   calls, removals>>

connect_signals ==
    /\ ~connected
    /\ connected' = TRUE
    /\ UNCHANGED <<topo, netState, started, nodes, now, timers, cycles, written, finished,
                   configWrites, teardowns, raised, sinkFailures, calls, removals>>

\* The body of stop() with a fault: network.stop() comes first, the poll-rate
\* write after it.
StopBody_teardown_first ==
    /\ calls.stop < MaxStops
    /\ teardowns' = teardowns + 1
    /\ netState' = IF netState = "started" THEN "stopped" ELSE netState
    /\ \/ /\ HasConfig(nodes)
          /\ nodes' = WriteConfig(nodes, POLL_RATE_STOP)
          /\ configWrites' = Append(configWrites, POLL_RATE_STOP)
          /\ UNCHANGED <<cycles, raised>>
       \/ /\ nodes' = EmptyNodes
          /\ cycles' = Detached(cycles)
          /\ raised' = raised \cup {Raise("stop", "KeyError")}
          /\ UNCHANGED configWrites
    /\ UNCHANGED <<topo, started, connected, now, timers, written, finished,
                   sinkFailures, removals>>

\* The body of stop() with a fault: network.stop() is called whether or not
\* the poll-rate write raised.
StopBody_teardown_always ==
    /\ calls.stop < MaxStops
    /\ teardowns' = teardowns + 1
    /\ netState' = IF netState = "started" THEN "stopped" ELSE netState
    /\ IF HasConfig(nodes)
       THEN /\ configWrites' = Append(configWrites, POLL_RATE_STOP)
            /\ \/ nodes' = WriteConfig(nodes, POLL_RATE_STOP) /\ cycles' = cycles
               \/ nodes' = EmptyNodes /\ cycles' = Detached(cycles)
            /\ UNCHANGED raised
       ELSE /\ raised' = raised \cup {Raise("stop", "KeyError")}
            /\ \/ nodes' = nodes /\ cycles' = cycles
               \/ nodes' = EmptyNodes /\ cycles' = Detached(cycles)
            /\ UNCHANGED configWrites
    /\ UNCHANGED <<topo, started, connected, now, timers, written, finished,
                   sinkFailures, removals>>

\* The body of stop(): the poll-rate write, then network.stop(), which may
\* or may not empty network.nodes.  When it does, the node objects the
\* invocations in flight iterate are no longer part of the network.
StopBody ==
    /\ calls.stop < MaxStops
    /\ IF HasConfig(nodes)
       THEN /\ configWrites' = Append(configWrites, POLL_RATE_STOP)
            /\ teardowns' = teardowns + 1
            /\ netState' = IF netState = "started" THEN "stopped" ELSE netState
            /\ \/ nodes' = WriteConfig(nodes, POLL_RATE_STOP) /\ cycles' = cycles
               \/ nodes' = EmptyNodes /\ cycles' = Detached(cycles)
            /\ UNCHANGED raised
       ELSE /\ raised' = raised \cup {Raise("stop", "KeyError")}
            /\ UNCHANGED <<configWrites, teardowns, netState, nodes, cycles>>
    /\ UNCHANGED <<topo, started, connected, now, timers, written, finished,
                   sinkFailures, removals>>

stop ==
    /\ StopBody
    /\ calls' = [calls EXCEPT !.stop = @ + 1]

\* SIGINT is delivered to the handler connect_signals installed.
stop_signal ==
    /\ connected
    /\ StopBody
    /\ calls' = [calls EXCEPT !.stop = @ + 1, !.sigint = TRUE]

\* signal_network_ready with a fault: start_polling is called before the
\* poll-rate write.
signal_network_ready_poll_first(network) ==
    /\ connected
    /\ calls.ready[OWN] + calls.ready[FOREIGN] < MaxReady
    /\ calls' = [calls EXCEPT !.ready[network] = @ + 1]
    /\ IF ~IsOwnNetwork(network)
       THEN UNCHANGED <<nodes, configWrites, timers, cycles, finished, raised>>
       ELSE /\ start_polling(nodes, now, timers)
            /\ IF ~HasConfig(nodes)
               THEN /\ raised' = raised \cup {Raise("signal_network_ready", "KeyError")}
                    /\ UNCHANGED <<nodes, configWrites>>
               ELSE /\ nodes' = WriteConfig(nodes, POLL_RATE_START)
                    /\ configWrites' = Append(configWrites, POLL_RATE_START)
                    /\ UNCHANGED raised
    /\ UNCHANGED <<topo, netState, started, connected, now, written, teardowns,
                   sinkFailures, removals>>

\* The dispatcher delivers SIGNAL_NETWORK_READY naming a network.  ozw_debug
\* and the logger calls only write to the log and are left out.
signal_network_ready(network) ==
    /\ connected
    /\ calls.ready[OWN] + calls.ready[FOREIGN] < MaxReady
    /\ calls' = [calls EXCEPT !.ready[network] = @ + 1]
    /\ IF ~IsOwnNetwork(network)
       THEN UNCHANGED <<nodes, configWrites, timers, cycles, finished, raised>>
       ELSE IF ~HasConfig(nodes)
       THEN /\ raised' = raised \cup {Raise("signal_network_ready", "KeyError")}
            /\ UNCHANGED <<nodes, configWrites, timers, cycles, finished>>
       ELSE /\ nodes' = WriteConfig(nodes, POLL_RATE_START)
            /\ configWrites' = Append(configWrites, POLL_RATE_START)
            /\ start_polling(nodes', now, timers)
            /\ UNCHANGED raised
    /\ UNCHANGED <<topo, netState, started, connected, now, written, teardowns,
                   sinkFailures, removals>>

Ready == \E network \in Networks : signal_network_ready(network)

Next ==
    \/ start
    \/ Populate
    \/ connect_signals
    \/ Ready
    \/ TimerFire
    \/ PollStep
    \/ ValueRemoved
    \/ stop
    \/ stop_signal

Spec == Init /\ [][Next]_vars

\* The threads run: a Timer that is due calls its function, and a thread that
\* is in start_polling goes on to its next statement.
FairSpec == Spec /\ WF_vars(TimerFire) /\ WF_vars(PollStep)

\* ------------------------------------------------------------ claims

Range(s) == {s[k] : k \in 1..Len(s)}

Whitelist ==
    {"Luminance", "Relative Humidity", "Temperature", "Ultraviolet",
     "Alarm Level", "Burglar"}

\* The values of device n whose label is whitelisted.
WhitelistedValues(n) == {v \in Range(topo[n].values) : v.label \in Whitelist}

\* Device n is a sensor node that lists at least one value in get_sensors().
ListsSensorValue(n) ==
    topo[n].sensorNode /\ \E v \in Range(topo[n].values) : v.sensor

\* The datum of value v as a number, in tenths.
Datum(v) == IF v.data.kind = "float" THEN v.data.v ELSE 10 * v.data.v

\* Point p is the Record of value v of device n.
RecordOf(p, n, v) ==
    /\ p.measurement = "value_refresh"
    /\ p.tags = [home_id |-> topo[n].home_id, node_id |-> n,
                 value_id |-> v.value_id, id_on_network |-> v.id_on_network,
                 manufacturer_id |-> topo[n].manufacturer_id,
                 product_id |-> topo[n].product_id, label |-> v.label]
    /\ p.fields.data = Datum(v)
    /\ p.fields.units = v.units

\* The number of Records an ended invocation f produced for value v of n.
Produced(f, n, v) == Cardinality({k \in 1..Len(f.out) : RecordOf(f.out[k], n, v)})

\* C1: every Record in the sink was built from a value of a device whose
\* label is one of the six whitelisted labels; no Record exists for a value
\* with any other label.
C1_OnlyWhitelistedRecords ==
    \A p \in written :
        /\ p.tags.label \in Whitelist
        /\ \E n \in DOMAIN topo : \E v \in WhitelistedValues(n) : RecordOf(p, n, v)

\* C1 witness: Records are in the sink after a cycle that walked a sensor
\* device none of whose values is whitelisted.
C1_Witness ==
    /\ written # {}
    /\ \E f \in finished : \E n \in f.walked : WhitelistedValues(n) = {}

\* Value v of device n was in the network when invocation f began and, if f
\* walked n, still when the inner loop enumerated the values of n.
Present(f, n, v) ==
    /\ <<n, v.value_id>> \in f.snap
    /\ n \in f.walked => <<n, v.value_id>> \in f.seen

\* C2 as claimed: a cycle (one that runs to its end) produces exactly one
\* Record for every whitelisted value of every device known to the network.
C2_OneRecordPerWhitelistedValue ==
    \A f \in finished :
        f.status = "returned" =>
            \A n \in f.ids : \A v \in WhitelistedValues(n) :
                Present(f, n, v) => Produced(f, n, v) = 1

\* The walk of invocation f got to value v of device n and past it: the
\* inner loop enumerated v, and f returned, or raised on a later node or on a
\* later value of n, or raised when it asked for the value after v.
Index(n, v) == CHOOSE k \in 1..Len(topo[n].values) : topo[n].values[k] = v

Passed(f, n, v) ==
    /\ <<n, v.value_id>> \in f.seen
    /\ \/ f.status = "returned"
       \/ n < f.at[1]
       \/ /\ n = f.at[1]
          /\ Len(f.at) = 2
          /\ \E w \in Range(topo[n].values) :
                /\ w.value_id = f.at[2]
                /\ \/ Index(n, v) < Index(n, w)
                   \/ f.status = "RuntimeError" /\ v = w

\* C2 as amended: a cycle produces exactly one Record, with the tags and
\* fields of (D,V), for every whitelisted value V of every device D that
\* is_sensor accepts and that the walk passed without raising; it produces
\* none for any other value, and nothing else.
C2_OneRecordPerWalkedWhitelistedValue ==
    \A f \in finished :
        /\ \A n \in f.ids : \A v \in WhitelistedValues(n) :
              Produced(f, n, v) = IF ListsSensorValue(n) /\ Passed(f, n, v) THEN 1 ELSE 0
        /\ \A k \in 1..Len(f.out) :
              \E n \in f.ids : \E v \in WhitelistedValues(n) : RecordOf(f.out[k], n, v)

\* C2 witness: a cycle returned with one Record for each of two whitelisted
\* values of a sensor device, next to a device with a whitelisted value that
\* is_sensor rejects.
C2_Witness ==
    \E f \in finished :
        /\ f.status = "returned"
        /\ Len(f.out) = 2
        /\ \E n \in f.ids : ~ListsSensorValue(n) /\ WhitelistedValues(n) # {}

\* C3 as claimed: once a stop() has completed, no step other than a ready
\* notification or another stop() arms a timer.
C3_NoTimerArmedAfterStop ==
    [][(teardowns > 0 /\ calls' = calls) => timers' = timers]_vars

\* C4: a ready notification for another network changes nothing: no
\* poll-rate write, no cycle, no timer, no Record, no exception; and cycling
\* is only ever triggered by a notification for the own network.
C4_ForeignReadyIsNoOp ==
    /\ [][calls'.ready[FOREIGN] # calls.ready[FOREIGN] =>
            UNCHANGED <<nodes, configWrites, timers, cycles, written, finished,
                        raised, netState, teardowns>>]_vars
    /\ [](timers # <<>> \/ cycles # <<>> \/ written # {}
              \/ POLL_RATE_START \in Range(configWrites)
            => calls.ready[OWN] > 0)

\* C4 witness: a notification for another network has been delivered while
\* the own network was populated and ready to be polled, and nothing started.
C4_Witness ==
    /\ calls.ready[FOREIGN] = 1
    /\ calls.ready[OWN] = 0
    /\ HasConfig(nodes)
    /\ timers = <<>>
    /\ cycles = <<>>
    /\ configWrites = <<>>

\* C5 as claimed: a stop() called before any start() raises nothing and
\* leaves no poll-rate "start" write behind.
C5_StopBeforeStartIsSafe ==
    [][(calls'.stop > calls.stop /\ ~started) =>
          (raised' = raised /\ POLL_RATE_START \notin Range(configWrites'))]_vars

\* C6 as claimed: when a sink write fails in a cycle, every other whitelisted
\* value of every sensor device is still written in that cycle.
C6_SinkFailureSkipsOneRecord ==
    \A f \in finished :
        f.status = "SinkError" =>
            \A n \in f.ids : \A v \in WhitelistedValues(n) :
                (ListsSensorValue(n) /\ Present(f, n, v) /\ <<n, v.value_id>> # f.at)
                    => Produced(f, n, v) = 1

\* C7 as claimed: once a stop() has completed, a ready notification for the
\* own network writes no poll rate and starts no cycle and no timer.
C7_NoRestartAfterStop ==
    [][(teardowns > 0 /\ calls'.ready[OWN] > calls.ready[OWN]) =>
          (configWrites' = configWrites /\ timers' = timers /\ cycles' = cycles)]_vars

\* C8 as claimed: at most one poll timer is pending at any time.
C8_AtMostOnePendingTimer == Len(timers) <= 1

\* C9 as claimed: once SIGINT has been delivered, the poll-rate lowering
\* write and the network teardown have each been performed exactly once.
C9_InterruptStopsExactlyOnce ==
    calls.sigint =>
        /\ Cardinality({k \in 1..Len(configWrites) : configWrites[k] = POLL_RATE_STOP}) = 1
        /\ teardowns = 1

\* C10 as claimed: a cycle walks the values of a device exactly when the
\* device has at least one whitelisted value.
C10_SensorIffWhitelistedValue ==
    \A f \in finished :
        f.status = "returned" =>
            \A n \in f.ids : (n \in f.walked <=> WhitelistedValues(n) # {})

\* C10 as amended: a cycle walks the values of a device exactly when the
\* device is a sensor node whose get_sensors() list is not empty, whatever
\* the labels of its values; a device with no whitelisted value produces no
\* Record.
C10_SensorIffSensorValueListed ==
    \A f \in finished :
        /\ \A n \in f.walked : ListsSensorValue(n)
        /\ f.status = "returned" => \A n \in f.ids : (n \in f.walked <=> ListsSensorValue(n))
        /\ \A n \in f.ids :
              WhitelistedValues(n) = {} => \A k \in 1..Len(f.out) : f.out[k].tags.node_id # n

\* C10 witness: a cycle returned after walking a device with no whitelisted
\* value and leaving out a device with one.
C10_Witness ==
    \E f \in finished :
        /\ f.status = "returned"
        /\ \E n \in f.walked : WhitelistedValues(n) = {}
        /\ \E n \in f.ids \ f.walked : WhitelistedValues(n) # {}

\* C11: a start() step writes no poll rate, runs no cycle, arms no timer and
\* writes no Record; the poll rate 15 is written only by a ready notification
\* for the own network, in the step that begins the first cycle; and whenever
\* a timer, a cycle or a Record exists the poll rate 15 has been written.
C11_StartAloneArmsNothing ==
    /\ [][(netState # "started" /\ netState' = "started") =>
            UNCHANGED <<nodes, configWrites, timers, cycles, finished, written>>]_vars
    /\ [][configWrites' # configWrites /\ configWrites'[Len(configWrites')] = POLL_RATE_START =>
            /\ calls'.ready[OWN] = calls.ready[OWN] + 1
            /\ timers' = Append(timers, now + TIME_INTERVAL)
            /\ nodes'[CONFIG_NODE] = SetData(nodes[CONFIG_NODE], CONFIG_NUMBER, Byte(POLL_RATE_START))]_vars
    /\ [](timers # <<>> \/ cycles # <<>> \/ finished # {} \/ written # {}
            => POLL_RATE_START \in Range(configWrites))

\* C11 witness: start() has been called, the network is populated with the
\* poll-rate value and the callback is connected, and with no ready
\* notification delivered nothing has been written or armed.
C11_Witness ==
    /\ started
    /\ connected
    /\ netState = "started"
    /\ HasConfig(nodes)
    /\ calls.ready = [n \in Networks |-> 0]
    /\ configWrites = <<>>
    /\ timers = <<>>
    /\ cycles = <<>>
    /\ finished = {}

\* A Record without its timestamp.
Untimed(out) ==
    [k \in 1..Len(out) |->
        [measurement |-> out[k].measurement, tags |-> out[k].tags, fields |-> out[k].fields]]

\* Invocation f met the network of its entry: the values its inner loops
\* enumerated are the values the nodes it walked had at entry.
SawSnapshot(f) == f.seen = {p \in f.snap : p[1] \in f.walked}

\* C12 as claimed: two cycles that end one after the other, that met the same
\* device snapshot and that no device read cut short produce the same
\* Records, timestamps aside.
C12_UnchangedSnapshotSameRecords ==
    [][\A f \in finished : \A g \in finished' :
          ( /\ f.snap = g.snap
            /\ SawSnapshot(f) /\ SawSnapshot(g)
            /\ {f.status, g.status} \subseteq {"returned", "SinkError"} )
          => Untimed(f.out) = Untimed(g.out)]_vars

\* C13: the step that begins a cycle arms the Timer due TIME_INTERVAL later;
\* a cycle that ends by an exception leaves the pending timers as they are;
\* a cycle in flight always has a Timer pending; and, the threads running
\* and the network not stopped, a cycle begun at a time t is followed by one
\* begun at t + TIME_INTERVAL or later (as far as the clock goes).
C13_EveryCycleArmsTheNext ==
    /\ [][(\/ Len(cycles') > Len(cycles)
           \/ Len(cycles') = Len(cycles) /\ finished' # finished) =>
            /\ Len(timers') >= 1
            /\ Len(timers') >= Len(timers)
            /\ timers'[Len(timers')] = now' + TIME_INTERVAL]_vars
    /\ [][(Len(cycles') < Len(cycles) /\ raised' # raised) => timers' = timers]_vars
    /\ [](cycles # <<>> => timers # <<>>)
    /\ \A t \in 0..(MaxTime - TIME_INTERVAL) :
          (now = t /\ (cycles # <<>> \/ finished # {}) /\ teardowns = 0)
              ~> (now >= t + TIME_INTERVAL \/ teardowns > 0)

\* C13 witness: a cycle was ended by an exception, and a later cycle, begun
\* by the Timer, has written a Record.
C13_Witness ==
    \E r \in raised :
        /\ r.in = "start_polling"
        /\ r.time < now
        /\ \E p \in written : p.time = now

\* The poll-rate lowering writes made so far.
LoweringWrites == {k \in 1..Len(configWrites) : configWrites[k] = POLL_RATE_STOP}

C15_DisappearedValueIsSkipped ==
    teardowns = 0 =>
        \A f \in finished : f.status \notin {"KeyError", "RuntimeError"}

\* Node m is node n with nothing changed but the data of its poll-rate
\* value, which is now rate.
OnlyPollRateSet(n, m, rate) ==
    /\ [m EXCEPT !.values = <<>>] = [n EXCEPT !.values = <<>>]
    /\ Len(m.values) = Len(n.values)
    /\ \A k \in 1..Len(n.values) :
          m.values[k] = IF n.values[k].value_id = CONFIG_NUMBER
                        THEN [n.values[k] EXCEPT !.data = Byte(rate)]
                        ELSE n.values[k]

\* C16: a step of a poll cycle (a Timer firing, a loop step) leaves every
\* node and value as it is; and whenever a step changes a node that stays in
\* the network with the same values, the node is node 3, the change is the
\* data of its poll-rate value, and it is 15 written by a ready notification
\* for the own network or 3600 written by stop().
C16_CyclesOnlyRead ==
    /\ [][( /\ calls' = calls /\ removals' = removals /\ teardowns' = teardowns
            /\ \/ timers' # timers \/ written' # written
               \/ finished' # finished \/ cycles' # cycles )
          => nodes' = nodes /\ configWrites' = configWrites]_vars
    /\ [][\A n \in DOMAIN nodes \cap DOMAIN nodes' :
            (nodes'[n] # nodes[n] /\ ValueIds(nodes'[n]) = ValueIds(nodes[n])) =>
                /\ n = CONFIG_NODE
                /\ \/ /\ OnlyPollRateSet(nodes[n], nodes'[n], POLL_RATE_START)
                      /\ calls'.ready[OWN] = calls.ready[OWN] + 1
                   \/ /\ OnlyPollRateSet(nodes[n], nodes'[n], POLL_RATE_STOP)
                      /\ calls'.stop = calls.stop + 1]_vars
    /\ [][configWrites' # configWrites => calls' # calls]_vars

\* C16 witness: a cycle has walked the nodes and written Records, and the
\* network differs from the mesh in the poll rate only.
C16_Witness ==
    /\ nodes # topo
    /\ \A n \in DOMAIN topo :
          n \in DOMAIN nodes /\
          OnlyPollRateSet(topo[n], nodes[n], IF n = CONFIG_NODE THEN POLL_RATE_START ELSE 0)
    /\ \E f \in finished : f.status = "returned" /\ Len(f.out) = 2

\* C17: a ready notification for the own network that finds node 3 or its
\* poll-rate value missing raises KeyError and does nothing else: no poll
\* rate is written, no Timer is armed, no cycle begins, no Record is written.
C17_ReadyWithoutPollRateValueFails ==
    [][(calls'.ready[OWN] = calls.ready[OWN] + 1 /\ ~HasConfig(nodes)) =>
          /\ Raise("signal_network_ready", "KeyError") \in raised'
          /\ UNCHANGED <<nodes, configWrites, timers, cycles, finished, written>>]_vars

\* C17 witness: the network is populated, node 3 or its poll-rate value is
\* missing, the ready notification for the own network has been handled and
\* has raised, and nothing is armed or written.
C17_Witness ==
    /\ nodes # EmptyNodes
    /\ ~HasConfig(nodes)
    /\ calls.ready[OWN] = 1
    /\ \E r \in raised : r.in = "signal_network_ready" /\ r.error = "KeyError"
    /\ timers = <<>>
    /\ cycles = <<>>
    /\ written = {}

\* C18: a stop() step tears the network down only when its poll-rate write
\* succeeded; when the write raises (node 3 or the value missing) the step
\* adds the KeyError and leaves the network, its state and the pending timers
\* and cycles as they are; and, the threads running, a timer chain that was
\* pending when stop() raised at a time t begins a cycle at t + TIME_INTERVAL
\* or later (as far as the clock goes).
C18_TeardownOnlyAfterSuccessfulWrite ==
    /\ [][(calls'.stop = calls.stop + 1 /\ ~HasConfig(nodes)) =>
            /\ Raise("stop", "KeyError") \in raised'
            /\ UNCHANGED <<teardowns, netState, nodes, configWrites, timers, cycles,
                           finished, written>>]_vars
    /\ [][teardowns' # teardowns =>
            /\ HasConfig(nodes)
            /\ raised' = raised
            /\ configWrites' = Append(configWrites, POLL_RATE_STOP)]_vars
    /\ \A t \in 0..(MaxTime - TIME_INTERVAL) :
          (teardowns = 0 /\ \E r \in raised : r.in = "stop" /\ r.polling /\ r.time = t)
              ~> (now >= t + TIME_INTERVAL \/ teardowns > 0)

\* C18 witness: stop() raised at its write while a Timer was pending, the
\* network was not torn down, and a later cycle has written a Record.
C18_Witness ==
    /\ teardowns = 0
    /\ netState = "started"
    /\ \E r \in raised :
          /\ r.in = "stop"
          /\ r.polling
          /\ r.time < now
          /\ \E p \in written : p.time = now

====
